---- MODULE Spec2Model ----
(***************************************************************************)
(* scil_search_keywords.py: scan the scripts directory, test every script  *)
(* against the keyword list and print a highlighted block per match.       *)
(*                                                                         *)
(* Strings are sequences of one-character strings (<<"a", ".", "p">>), so  *)
(* that substring search, regex substitution and sorting are computed      *)
(* character by character.  "ESC" stands for the single character \033 and *)
(* SPACING is kept as one token of eighteen "=" signs.                     *)
(***************************************************************************)
EXTENDS Naturals, Sequences, FiniteSets, TLC

VARIABLES
    keywords,       \* args.keywords
    search_parser,  \* args.search_parser
    script_dir,     \* the *.py files of the directory: [name, text, fails]
    kw_subs,        \* the compiled patterns
    scripts,        \* sorted(script_dir.glob('*.py'))
    pos,            \* index in scripts of the script the for loop is at
    matches,        \* the list of matching filenames
    out,            \* standard output: the print calls made so far
    pc,             \* "start", "loop", "done" or "aborted"
    run,            \* 1 for the first invocation of main(), 2 for the second
    first_out       \* what the first invocation printed and how it ended

vars == <<keywords, search_parser, script_dir, kw_subs, scripts, pos, matches,
          out, pc, run, first_out>>

----------------------------------------------------------------------------
(* Bounds of the model *)

MaxKeywords == 2
MaxScripts == 2

\* The keywords a user may give (all non-empty), the stems of the script names
\* and the texts extraction may yield.  "a" and "A" differ in case only, "m"
\* is a character of the markers, "a" occurs in 'No docstring available!',
\* "Am" overlaps "a" and "m", and "Am.py" sorts before "a.py".
Keywords == { <<"a">>, <<"m">>, <<"A", "m">> }
Stems == { <<"a">>, <<"m">>, <<"A", "m">> }
Texts == { <<>>, <<"A">>, <<"m", "a", "M">> }

----------------------------------------------------------------------------
(* Constants of the script *)

RED == <<"ESC", "[", "3", "1", "m">>
BOLD == <<"ESC", "[", "1", "m">>
END_COLOR == <<"ESC", "[", "0", "m">>
SPACING == <<"==================">>

NoDocstring ==
    <<"N", "o", " ", "d", "o", "c", "s", "t", "r", "i", "n", "g", " ",
      "a", "v", "a", "i", "l", "a", "b", "l", "e", "!">>

NoResults ==
    <<"N", "o", " ", "r", "e", "s", "u", "l", "t", "s", " ",
      "f", "o", "u", "n", "d", "!">>

EndOf == <<"E", "n", "d", " ", "o", "f", " ">>

DotPy == <<".", "p", "y">>

----------------------------------------------------------------------------
(* Characters and strings *)

ToLower ==
    [c \in {"A", "E", "M", "N"} |->
        CASE c = "A" -> "a" [] c = "E" -> "e" [] c = "M" -> "m" [] c = "N" -> "n"]

\* str.lower() on one character
LowerChar(c) == IF c \in DOMAIN ToLower THEN ToLower[c] ELSE c

\* str.lower()
Lower(s) == [k \in 1..Len(s) |-> LowerChar(s[k])]

\* The code point of a character
Ord(c) ==
    CASE c = "ESC" -> 27 [] c = " " -> 32 [] c = "!" -> 33 [] c = "." -> 46
      [] c = "0" -> 48 [] c = "1" -> 49 [] c = "3" -> 51
      [] c = "A" -> 65 [] c = "E" -> 69 [] c = "M" -> 77 [] c = "N" -> 78
      [] c = "[" -> 91
      [] c = "a" -> 97 [] c = "m" -> 109 [] c = "p" -> 112 [] c = "y" -> 121

\* key in text, for two strings
RECURSIVE StartsWith(_, _)
StartsWith(s, prefix) ==
    IF prefix = <<>> THEN TRUE
    ELSE IF s = <<>> THEN FALSE
    ELSE Head(s) = Head(prefix) /\ StartsWith(Tail(s), Tail(prefix))

RECURSIVE In(_, _)
In(key, text) ==
    IF StartsWith(text, key) THEN TRUE
    ELSE IF text = <<>> THEN FALSE
    ELSE In(key, Tail(text))

\* Less on the lower-cased strings, as sorted(key=str.lower) would compare
RECURSIVE LessIgnoreCase(_, _)
LessIgnoreCase(a, b) ==
    IF b = <<>> THEN FALSE
    ELSE IF a = <<>> THEN TRUE
    ELSE IF LowerChar(Head(a)) = LowerChar(Head(b)) THEN LessIgnoreCase(Tail(a), Tail(b))
    ELSE Ord(LowerChar(Head(a))) < Ord(LowerChar(Head(b)))

\* a < b for two strings: code point by code point, a proper prefix first
RECURSIVE Less(_, _)
Less(a, b) ==
    IF b = <<>> THEN FALSE
    ELSE IF a = <<>> THEN TRUE
    ELSE IF Head(a) = Head(b) THEN Less(Tail(a), Tail(b))
    ELSE Ord(Head(a)) < Ord(Head(b))

----------------------------------------------------------------------------
(* The scripts directory *)

\* script.name of a file with the given stem
FileName(stem) == stem \o DotPy

\* A script file: its name, the text the extraction of the run's mode reads
\* from it (the module docstring, '' when there is none, in fast mode; the
\* standard output of `script --help` in slow mode), and whether that
\* extraction fails on it (the source does not parse; the subprocess fails).
ScriptFile(name, content) == [name |-> name, text |-> content[1], fails |-> content[2]]

FileNames == { FileName(st) : st \in Stems }

\* The directories the run may find: no two files of one name
Directories ==
    UNION { { { ScriptFile(n, c[n]) : n \in names } : c \in [names -> Texts \X BOOLEAN] } :
            names \in { ns \in SUBSET FileNames : Cardinality(ns) <= MaxScripts } }

\* script_dir.glob('*.py'): the files, in any order
Glob(dir) ==
    { l \in [1..Cardinality(dir) -> dir] : \A x \in dir : \E k \in DOMAIN l : l[k] = x }

RECURSIVE Insert(_, _)
Insert(x, l) ==
    IF l = <<>> THEN <<x>>
    ELSE IF Less(x.name, Head(l).name) THEN <<x>> \o l
    ELSE <<Head(l)>> \o Insert(x, Tail(l))

\* the listing as the file system gave it
Unsorted(l) == l

\* sorted(...) of paths of one directory: ascending by name
RECURSIVE Sorted(_)
Sorted(l) == IF l = <<>> THEN <<>> ELSE Insert(Head(l), Sorted(Tail(l)))

----------------------------------------------------------------------------
(* Matching *)

\* the inner loop of _test_matching_keywords: the first text holding the key
RECURSIVE KeyMatch(_, _)
KeyMatch(key, texts) ==
    IF texts = <<>> THEN FALSE
    ELSE IF In(Lower(key), Lower(Head(texts))) THEN TRUE
    ELSE KeyMatch(key, Tail(texts))

\* the test with np.any in the place of np.all
test_any_keyword(kws, texts) ==
    \E k \in DOMAIN kws : KeyMatch(kws[k], texts)

\* _test_matching_keywords(keywords, texts)
test_matching_keywords(kws, texts) ==
    LET key_matches == [k \in DOMAIN kws |-> KeyMatch(kws[k], texts)]
    IN  \A k \in DOMAIN key_matches : key_matches[k]

\* the texts of a test made after the placeholder is substituted
TestedTextsWithPlaceholder(filename, search_text) ==
    <<filename, IF search_text = <<>> THEN NoDocstring ELSE search_text>>

\* the texts main() hands to the test
TestedTexts(filename, search_text) == <<filename, search_text>>

----------------------------------------------------------------------------
(* Highlighting *)

\* re.compile('(' + re.escape(kw) + ')', re.IGNORECASE)
Compile(kw) == [group |-> kw, ignorecase |-> TRUE]

\* the pattern matches s at index i
MatchesAt(regex, s, i) ==
    LET n == Len(regex.group)
    IN  /\ i + n - 1 <= Len(s)
        /\ \A k \in 1..n :
              IF regex.ignorecase
              THEN LowerChar(s[i + k - 1]) = LowerChar(regex.group[k])
              ELSE s[i + k - 1] = regex.group[k]

\* '{}\\1{}'.format(RED + BOLD, END_COLOR) with \1 the matched group
NewKey(group1) == RED \o BOLD \o group1 \o END_COLOR

\* the scan of regex.sub from index i on, found being the indexes the pattern
\* matches s at: the leftmost match at or after i is replaced by new_key and
\* the scan goes on behind it, so that no two replaced matches overlap
RECURSIVE SubFrom(_, _, _, _)
SubFrom(regex, s, i, found) ==
    LET n == Len(regex.group)
        later == { j \in found : j >= i }
    IN  IF later = {} THEN SubSeq(s, i, Len(s))
        ELSE LET j == CHOOSE x \in later : \A y \in later : x <= y
             IN  SubSeq(s, i, j - 1) \o NewKey(SubSeq(s, j, j + n - 1))
                                     \o SubFrom(regex, s, j + n, later)

\* regex.sub(new_key, s)
RegexSub(regex, s) ==
    SubFrom(regex, s, 1, { j \in 1..Len(s) : MatchesAt(regex, s, j) })

\* for regex in kw_subs: s = regex.sub(new_key, s)
RECURSIVE SubAll(_, _)
SubAll(subs, s) ==
    IF subs = <<>> THEN s ELSE SubAll(Tail(subs), RegexSub(Head(subs), s))

\* search_text or 'No docstring available!'
OrNoDocstring(search_text) == IF search_text = <<>> THEN NoDocstring ELSE search_text

----------------------------------------------------------------------------
(* Printing *)

\* a print call: the statement that made it and the line it wrote
Printed(stmt, line) == [stmt |-> stmt, line |-> line]

\* print(SPACING, filename, SPACING)
OpenLine(filename) == SPACING \o <<" ">> \o filename \o <<" ">> \o SPACING

\* print(SPACING, "End of {}".format(filename), SPACING)
CloseLine(filename) == SPACING \o <<" ">> \o EndOf \o filename \o <<" ">> \o SPACING

\* the block with the closing line printed before the text
BlockCloseFirst(filename, search_text) ==
    << Printed("open", OpenLine(filename)),
       Printed("close", CloseLine(filename)),
       Printed("text", search_text) >>

\* the three print calls of a passing script
Block(filename, search_text) ==
    << Printed("open", OpenLine(filename)),
       Printed("text", search_text),
       Printed("close", CloseLine(filename)) >>

----------------------------------------------------------------------------
(* Extraction *)

\* an extraction that swallows the parse error
DocstringNeverRaises(script) == FALSE

\* ast.parse raises on the script's source
GetDocstringRaises(script) == script.fails

\* an extraction whose failure raises in slow mode as well
RaisesInEitherMode(script) == script.fails

\* the extraction of the run's mode raises on the script
ExtractionRaises(script) == ~search_parser /\ GetDocstringRaises(script)

\* help_print.read() in slow mode, _get_docstring(str(script)) in fast mode
SearchText(script) == script.text

----------------------------------------------------------------------------
(* The run *)

KeywordLists == UNION { [1..n -> Keywords] : n \in 1..MaxKeywords }

Init ==
    /\ keywords \in KeywordLists
    /\ search_parser \in BOOLEAN
    /\ script_dir \in Directories
    /\ kw_subs = <<>>
    /\ scripts = <<>>
    /\ pos = 0
    /\ matches = <<>>
    /\ out = <<>>
    /\ pc = "start"
    /\ run = 1
    /\ first_out = <<>>

\* main() up to the for statement
Start ==
    /\ pc = "start"
    /\ matches' = <<>>
    /\ kw_subs' = [k \in DOMAIN keywords |-> Compile(keywords[k])]
    /\ \E listing \in Glob(script_dir) : scripts' = Sorted(listing)
    /\ pos' = 1
    /\ pc' = "loop"
    /\ UNCHANGED <<keywords, search_parser, script_dir, out, run, first_out>>

AtScript == pc = "loop" /\ pos <= Len(scripts)

\* an iteration whose extraction raises: the exception leaves main()
ExtractRaises ==
    /\ AtScript
    /\ ExtractionRaises(scripts[pos])
    /\ pc' = "aborted"
    /\ UNCHANGED <<keywords, search_parser, script_dir, kw_subs, scripts, pos,
                   matches, out, run, first_out>>

\* an iteration that ends at `continue`
Skip ==
    /\ AtScript
    /\ ~ExtractionRaises(scripts[pos])
    /\ LET filename == scripts[pos].name
           search_text == SearchText(scripts[pos])
       IN  ~test_matching_keywords(keywords, TestedTexts(filename, search_text))
    /\ pos' = pos + 1
    /\ UNCHANGED <<keywords, search_parser, script_dir, kw_subs, scripts,
                   matches, out, pc, run, first_out>>

\* an iteration that reports the script
Report ==
    /\ AtScript
    /\ ~ExtractionRaises(scripts[pos])
    /\ LET filename == scripts[pos].name
           search_text == SearchText(scripts[pos])
       IN  /\ test_matching_keywords(keywords, TestedTexts(filename, search_text))
           /\ matches' = Append(matches, filename)
           /\ out' = out \o Block(SubAll(kw_subs, filename),
                                  SubAll(kw_subs, OrNoDocstring(search_text)))
    /\ pos' = pos + 1
    /\ UNCHANGED <<keywords, search_parser, script_dir, kw_subs, scripts,
                   pc, run, first_out>>

\* the end of the run with the message printed whatever matches holds
FinishAlwaysPrints ==
    /\ pc = "loop"
    /\ pos > Len(scripts)
    /\ out' = Append(out, Printed("none", NoResults))
    /\ pc' = "done"
    /\ UNCHANGED <<keywords, search_parser, script_dir, kw_subs, scripts, pos,
                   matches, run, first_out>>

\* after the loop
Finish ==
    /\ pc = "loop"
    /\ pos > Len(scripts)
    /\ out' = IF matches = <<>> THEN Append(out, Printed("none", NoResults)) ELSE out
    /\ pc' = "done"
    /\ UNCHANGED <<keywords, search_parser, script_dir, kw_subs, scripts, pos,
                   matches, run, first_out>>

Ended == pc \in {"done", "aborted"}

\* the command is given a second time: a new process, the same arguments and
\* the same directory
Rerun ==
    /\ Ended
    /\ run = 1
    /\ run' = 2
    /\ first_out' = <<pc, out>>
    /\ kw_subs' = <<>>
    /\ scripts' = <<>>
    /\ pos' = 0
    /\ matches' = <<>>
    /\ out' = <<>>
    /\ pc' = "start"
    /\ UNCHANGED <<keywords, search_parser, script_dir>>

Next == Start \/ ExtractRaises \/ Skip \/ Report \/ Finish

Spec == Init /\ [][Next]_vars

NextTwice == Next \/ Rerun

SpecTwice == Init /\ [][NextTwice]_vars

----------------------------------------------------------------------------
(* Vocabulary of the properties *)

\* key occurs in text, whatever the case of the letters
Occurs(key, text) ==
    /\ Len(key) <= Len(text)
    /\ \E i \in 1..(Len(text) - Len(key) + 1) :
          \A j \in 1..Len(key) : LowerChar(text[i + j - 1]) = LowerChar(key[j])

\* every keyword occurs in the script's filename or in its extracted text
ShouldPass(s) ==
    \A k \in DOMAIN keywords : Occurs(keywords[k], s.name) \/ Occurs(keywords[k], s.text)

\* the scripts the loop is through with
Processed == 1..(pos - 1)

Reported(s) == \E j \in DOMAIN matches : matches[j] = s.name

NonePrinted == \E j \in DOMAIN out : out[j].stmt = "none"

\* a before b in code point order
Before(a, b) ==
    \E i \in 1..Len(b) :
        /\ i <= Len(a) + 1
        /\ \A k \in 1..(i - 1) : a[k] = b[k]
        /\ i = Len(a) + 1 \/ Ord(a[i]) < Ord(b[i])

\* the script of the directory that has the name
FileNamed(name) == CHOOSE s \in script_dir : s.name = name

----------------------------------------------------------------------------
\* C1: a script the loop has processed is in matches, and has its block in the
\* output, if and only if every keyword occurs, case-insensitively, in its
\* filename or in its extracted text; no other name is in matches.
C1_ReportedIffAllKeywords ==
    /\ \A p \in Processed :
          /\ Reported(scripts[p]) <=> ShouldPass(scripts[p])
          /\ Reported(scripts[p]) <=>
                \E j \in DOMAIN matches :
                    /\ matches[j] = scripts[p].name
                    /\ 3 * j <= Len(out)
                    /\ out[3 * j - 2].stmt = "open"
    /\ \A j \in DOMAIN matches : \E p \in Processed : scripts[p].name = matches[j]

\* Two keywords, one found in the filename only and one in the text only, in
\* a case other than the keyword's; and a script with one keyword of two.
C1_Witness ==
    /\ pc = "done"
    /\ Len(keywords) = 2
    /\ \E p \in Processed :
          /\ Reported(scripts[p])
          /\ Occurs(keywords[1], scripts[p].name) /\ ~Occurs(keywords[1], scripts[p].text)
          /\ Occurs(keywords[2], scripts[p].text) /\ ~Occurs(keywords[2], scripts[p].name)
          /\ ~In(keywords[2], scripts[p].text)
    /\ \E q \in Processed :
          /\ ~Reported(scripts[q])
          /\ \E k \in DOMAIN keywords :
                Occurs(keywords[k], scripts[q].name) \/ Occurs(keywords[k], scripts[q].text)

\* C2: the reported filenames ascend in code point order, and the blocks of
\* the output stand in the order of matches: the j-th block is the block of
\* the j-th reported filename.
C2_SortedOrder ==
    /\ \A j, k \in DOMAIN matches : j < k => Before(matches[j], matches[k])
    /\ \A j \in DOMAIN matches :
          /\ 3 * j <= Len(out)
          /\ out[3 * j - 2] =
                Printed("open", SPACING \o <<" ">> \o SubAll(kw_subs, matches[j])
                                        \o <<" ">> \o SPACING)
          /\ out[3 * j].stmt = "close"

\* Two scripts reported, the upper-case name first.
C2_Witness ==
    /\ pc = "done"
    /\ Len(matches) = 2
    /\ matches[1] = FileName(<<"A", "m">>)
    /\ matches[2] = FileName(<<"a">>)

\* C3: 'No results found!' is printed only at the end of the scan, only when
\* no script passed, and is then the whole output; a scan that reaches its
\* end prints it if and only if no script passed.
C3_NoResults ==
    /\ NonePrinted =>
          /\ pc = "done"
          /\ pos > Len(scripts)
          /\ \A p \in DOMAIN scripts : ~ShouldPass(scripts[p])
          /\ out = << Printed("none", NoResults) >>
    /\ pc = "done" => (NonePrinted <=> \A p \in DOMAIN scripts : ~ShouldPass(scripts[p]))

\* Two scripts, neither passes, and the line is the output.
C3_Witness ==
    /\ pc = "done"
    /\ Len(scripts) = 2
    /\ NonePrinted

\* C4: the output is one block of three lines per passing script and nothing
\* else for the scripts: the opening line with the highlighted filename, the
\* highlighted text, the closing line 'End of' with the same highlighted
\* filename; a script that does not pass adds no line.
C4_Blocks ==
    /\ Len(matches) = Cardinality({ p \in Processed : ShouldPass(scripts[p]) })
    /\ Len(out) = 3 * Len(matches) + (IF NonePrinted THEN 1 ELSE 0)
    /\ \A j \in DOMAIN matches :
          LET h == SubAll(kw_subs, matches[j])
              s == FileNamed(matches[j])
          IN  /\ out[3 * j - 2] =
                    Printed("open", SPACING \o <<" ">> \o h \o <<" ">> \o SPACING)
              /\ out[3 * j - 1] =
                    Printed("text", SubAll(kw_subs, OrNoDocstring(s.text)))
              /\ out[3 * j] =
                    Printed("close", SPACING \o <<" ">> \o EndOf \o h \o <<" ">> \o SPACING)

\* Two scripts processed, one block printed.
C4_Witness ==
    /\ pc = "done"
    /\ Len(scripts) = 2
    /\ Len(matches) = 1
    /\ Len(out) = 3

----------------------------------------------------------------------------
(* Reading a highlighted string back *)

\* the marker m stands in s at index i
MarkerAt(s, i, m) ==
    /\ i + Len(m) - 1 <= Len(s)
    /\ \A k \in 1..Len(m) : s[i + k - 1] = m[k]

\* The characters of s that are not part of a whole marker, each with whether
\* it stands between an opening marker and its reset.
RECURSIVE Marks(_, _, _)
Marks(s, i, depth) ==
    IF i > Len(s) THEN <<>>
    ELSE IF MarkerAt(s, i, RED \o BOLD)
    THEN Marks(s, i + Len(RED \o BOLD), depth + 1)
    ELSE IF MarkerAt(s, i, END_COLOR)
    THEN Marks(s, i + Len(END_COLOR), IF depth > 0 THEN depth - 1 ELSE 0)
    ELSE << [char |-> s[i], wrapped |-> depth > 0] >> \o Marks(s, i + 1, depth)

OccursAt(key, text, i) ==
    /\ i + Len(key) - 1 <= Len(text)
    /\ \A j \in 1..Len(key) : LowerChar(text[i + j - 1]) = LowerChar(key[j])

\* shown is orig with every occurrence of every keyword between markers and
\* nothing else changed
HighlightedRight(orig, shown) ==
    LET m == Marks(shown, 1, 0)
    IN  /\ Len(m) = Len(orig)
        /\ \A i \in 1..Len(orig) : m[i].char = orig[i]
        /\ \A k \in DOMAIN keywords : \A i \in 1..Len(orig) :
              OccursAt(keywords[k], orig, i) =>
                  \A j \in i..(i + Len(keywords[k]) - 1) : m[j].wrapped

\* the filename an opening line shows
ShownName(line) == SubSeq(line, Len(SPACING) + 2, Len(line) - Len(SPACING) - 1)

----------------------------------------------------------------------------
\* C5: in every printed block the shown filename and the shown text are the
\* original filename and text with every case-insensitive occurrence of every
\* keyword between the bold/red marker and the reset marker, the casing kept
\* and no character outside the markers changed.
C5_Highlighting ==
    \A j \in DOMAIN matches :
        3 * j <= Len(out) =>
            LET s == FileNamed(matches[j])
            IN  /\ HighlightedRight(s.name, ShownName(out[3 * j - 2].line))
                /\ HighlightedRight(OrNoDocstring(s.text), out[3 * j - 1].line)

\* The same for the runs of one keyword, where no substitution follows another.
OneKeywordHighlighting == Len(keywords) = 1 => C5_Highlighting

\* C6: a reported script whose extracted text is empty has the placeholder
\* 'No docstring available!' as the text line of its block.
C6_Placeholder ==
    \A j \in DOMAIN matches :
        (3 * j <= Len(out) /\ FileNamed(matches[j]).text = <<>>) =>
            out[3 * j - 1].line = NoDocstring

\* C7: the second run of the command, on the same keywords, mode and
\* directory, ends as the first did and with the same output, whatever order
\* the directory is listed in on each run.
C7_Idempotent ==
    (run = 2 /\ Ended) => first_out = <<pc, out>>

\* A second run that reported two scripts.
C7_Witness ==
    /\ run = 2
    /\ pc = "done"
    /\ Len(matches) = 2

\* the output of the first n scripts of a scan that no extraction stops
RECURSIVE BlocksOf(_)
BlocksOf(n) ==
    IF n = 0 THEN <<>>
    ELSE BlocksOf(n - 1) \o
         (IF ShouldPass(scripts[n])
          THEN LET h == SubAll(kw_subs, scripts[n].name)
               IN  << Printed("open", SPACING \o <<" ">> \o h \o <<" ">> \o SPACING),
                      Printed("text", SubAll(kw_subs, OrNoDocstring(scripts[n].text))),
                      Printed("close",
                              SPACING \o <<" ">> \o EndOf \o h \o <<" ">> \o SPACING) >>
          ELSE <<>>)

\* C8: in fast mode the loop never goes past a script whose source does not
\* parse: the run ends there, aborted, no script from that one on is reported,
\* 'No results found!' is not printed, and the output is the blocks of the
\* passing scripts before it.
C8_AbortOnExtractionError ==
    /\ \A p \in DOMAIN scripts :
          (~search_parser /\ scripts[p].fails) =>
              /\ pos <= p
              /\ pc # "done"
              /\ ~NonePrinted
              /\ \A q \in p..Len(scripts) : ~Reported(scripts[q])
    /\ pc = "aborted" =>
          /\ ~search_parser
          /\ pos \in DOMAIN scripts
          /\ scripts[pos].fails
          /\ out = BlocksOf(pos - 1)

\* The first script does not parse and the second, which would pass, is
\* never reached.
C8_Witness ==
    /\ pc = "aborted"
    /\ pos = 1
    /\ Len(scripts) = 2
    /\ ShouldPass(scripts[2])

C10_State ==
    /\ pc # "start" => kw_subs = [k \in DOMAIN keywords |-> Compile(keywords[k])]
    /\ \A p \in Processed :
          /\ Reported(scripts[p]) =>
                \A k \in DOMAIN keywords :
                    \/ Occurs(keywords[k], scripts[p].name)
                    \/ scripts[p].text # <<>> /\ Occurs(keywords[k], scripts[p].text)
          /\ Reported(scripts[p]) <=> ShouldPass(scripts[p])

C10_Step ==
    /\ keywords' = keywords
    /\ pc = "loop" =>
          /\ kw_subs' = kw_subs
          /\ \A j \in DOMAIN matches : j \in DOMAIN matches' /\ matches'[j] = matches[j]

\* C10: a script is reported only for keywords that occur in its original
\* filename or original text (never for one that occurs in the placeholder
\* of an empty text or in a marker), whether it is reported depends on the
\* script and the keywords alone, and an iteration of the loop changes
\* neither the keywords, nor the compiled patterns, nor the earlier matches.
C10_TestOnOriginals == []C10_State /\ [][C10_Step]_vars

\* A script with no text, passed over although a keyword occurs in the
\* placeholder.
C10_Witness ==
    /\ pc = "done"
    /\ \E p \in Processed :
          /\ scripts[p].text = <<>>
          /\ ~Reported(scripts[p])
          /\ \E k \in DOMAIN keywords : Occurs(keywords[k], NoDocstring)

====
